---- MODULE Spec2Model ----
(***************************************************************************)
(* agent-health: the SSE readers of the two benchmark scripts              *)
(* (callOasisAgent in scripts/benchmark-mtbench.ts and in the tau-bench    *)
(* script) and OllyConnector.execute / parseResponse.                      *)
(*                                                                         *)
(* Text is a sequence of characters.  The wire alphabet is abstract: the   *)
(* literal prefix 'data: ' is one character, a JSON text is the three      *)
(* characters "{", <name of the value>, "}", and "\n" ends a line; any     *)
(* other text (a fragment of a JSON text cut by a chunk boundary, "x") is  *)
(* not JSON.                                                               *)
(***************************************************************************)
EXTENDS Integers, Sequences, FiniteSets, TLC

VARIABLES
    variant,         \* which script's callOasisAgent runs: "mtbench" | "tau"
    pc,              \* position of callOasisAgent
    stream,          \* every character the server has written to the response body
    pos,             \* number of characters of stream already returned by reader.read()
    currentMessage,  \* let currentMessage = ''
    fullResponse,    \* let fullResponse = ''
    toolsUsed,       \* const toolsUsed: string[] = []   (tau-bench only)
    events,          \* history: every aguiEvent decoded so far, in order
    finalized,       \* history: the operand of every fullResponse += currentMessage
    released,        \* number of reader.releaseLock() calls
    fetched,         \* the response fetch resolved with: ok, body
    requests,        \* number of fetch() calls callOasisAgent made
    error,           \* the message of the error callOasisAgent threw
    result,          \* what callOasisAgent returned
    cpc,             \* position of OllyConnector.execute
    endpoint,        \* execute's argument endpoint
    headers,         \* let headers = this.buildAuthHeaders(auth)
    signCalls,       \* history: the outcome of every signAgentRequest call
    streamCalls,     \* history: the headers of every consumeSSEStream call
    delivered,       \* history: the events consumeSSEStream passed to the callback
    converter,       \* const converter = new AGUIToTrajectoryConverter()
    rawEvents,       \* const rawEvents: AGUIEvent[] = []
    trajectory,      \* const trajectory: TrajectoryStep[] = []
    rawSeen,         \* history: the arguments of the onRawEvent calls
    progress,        \* history: the arguments of the onProgress calls
    response,        \* what execute returned
    rejection,       \* the message of the error execute rejected with
    executions,      \* two execute calls on one connector: position, events
                     \* delivered (history), value returned
    locals,          \* the trajectory, rawEvents and converter of each call
    signer,          \* signAgentRequest: position, number of the call, environment,
                     \* encryptedFasCreds, what was generated, headers returned
    bench,           \* main of the MT-Bench script: position, threshold, results,
                     \* summary, verdict printed, exit code
    waiter,          \* waitForToken: position, maxAttempts, attempt, queries made,
                     \* waits started, outcome
    tauMain          \* main of the tau-bench script: position, threshold, tasks,
                     \* results, what threw, verdict printed, exit code

rvars == <<variant, pc, stream, pos, currentMessage, fullResponse, toolsUsed,
           events, finalized, released, fetched, requests, error, result>>

xvars == <<endpoint, headers, signCalls, streamCalls>>

cvars == <<cpc, xvars, delivered, converter, rawEvents, trajectory, rawSeen, progress,
           response, rejection>>

ovars == <<executions, locals, signer, bench, waiter, tauMain>>

vars == <<rvars, cvars, ovars>>

\* ------------------------------------------------------------------ bounds
MaxLines == 3
MaxFrames == 3
MaxEvents == 4
MaxCallEvents == 2
MaxSignCalls == 2
MaxQuestions == 2
MaxAttemptsArg == 3
MaxTasks == 2

\* ------------------------------------------------------------- wire format
NL == "\n"

DataPrefix == <<"data: ">>

Whitespace == {" ", "\n", "\t", "\r"}

\* AG-UI events the scripts can receive (content of dataAsMap.content)
EventTags == {"S", "Ca", "Cb", "E", "T", "U"}

\* names of the JSON values the server can send
\* tool-call events: a second tool, a start without a name, an end
ToolTags == {"T2", "T0", "TE"}

JsonTags == EventTags \cup ToolTags \cup
            {"wS", "wCa", "wCb", "wE", "wT", "wU", "wT2", "wT0", "wTE",
             "noout", "badout", "noresp", "nocontent", "badcontent"}

JsonText(tag) == <<"{", tag, "}">>

NotJsonText == <<"x">>

NoEntries == <<>>

\* the value a JSON text denotes: an AG-UI event or an OASIS envelope
\*   type/delta/toolCallName      fields of an AG-UI event ("" / <<>> = absent)
\*   runId/threadId               identity fields of an AG-UI event ("" = absent)
\*   hasOutput, outputIsArray     inference_results[0].output present / an array
\*   output                       its entries [name, content] (content <<>> = absent)
Event(type, delta, tool) ==
    [type |-> type, delta |-> delta, toolCallName |-> tool,
     runId |-> "", threadId |-> "",
     hasOutput |-> FALSE, outputIsArray |-> FALSE, output |-> NoEntries]

Envelope(has, isArray, entries) ==
    [type |-> "", delta |-> <<>>, toolCallName |-> "",
     runId |-> "", threadId |-> "",
     hasOutput |-> has, outputIsArray |-> isArray, output |-> entries]

Entry(name, content) == [name |-> name, content |-> content]

Wrapped(content) ==
    Envelope(TRUE, TRUE, <<Entry("memory_id", <<"m">>), Entry("response", content)>>)

JsonValue(tag) ==
    CASE tag = "S"  -> Event("TEXT_MESSAGE_START", <<>>, "")
      [] tag = "Ca" -> Event("TEXT_MESSAGE_CONTENT", <<"a">>, "")
      [] tag = "Cb" -> Event("TEXT_MESSAGE_CONTENT", <<" ", "b">>, "")
      [] tag = "E"  -> Event("TEXT_MESSAGE_END", <<>>, "")
      [] tag = "T"  -> Event("TOOL_CALL_START", <<>>, "search")
      [] tag = "U"  -> Event("SOMETHING_UNKNOWN", <<>>, "")
      [] tag = "T2" -> Event("TOOL_CALL_START", <<>>, "lookup")
      [] tag = "T0" -> Event("TOOL_CALL_START", <<>>, "")
      [] tag = "TE" -> Event("TOOL_CALL_END", <<>>, "search")
      [] tag = "wT2" -> Wrapped(JsonText("T2"))
      [] tag = "wT0" -> Wrapped(JsonText("T0"))
      [] tag = "wTE" -> Wrapped(JsonText("TE"))
      [] tag = "wS"  -> Wrapped(JsonText("S"))
      [] tag = "wCa" -> Wrapped(JsonText("Ca"))
      [] tag = "wCb" -> Wrapped(JsonText("Cb"))
      [] tag = "wE"  -> Wrapped(JsonText("E"))
      [] tag = "wT"  -> Wrapped(JsonText("T"))
      [] tag = "wU"  -> Wrapped(JsonText("U"))
      [] tag = "noout"      -> Envelope(FALSE, FALSE, NoEntries)
      [] tag = "badout"     -> Envelope(TRUE, FALSE, NoEntries)
      [] tag = "noresp"     -> Envelope(TRUE, TRUE, <<Entry("memory_id", <<"m">>)>>)
      [] tag = "nocontent"  -> Wrapped(<<>>)
      [] tag = "badcontent" -> Wrapped(NotJsonText)

\* JSON.parse: the text is a JSON text or the call throws
IsJson(text) ==
    /\ Len(text) = Len(JsonText("S"))
    /\ text[1] = "{"
    /\ text[2] \in JsonTags
    /\ text[3] = "}"

JSONParse(text) == JsonValue(text[2])

\* line.startsWith('data: ')
StartsWith(line, prefix) ==
    /\ Len(line) >= Len(prefix)
    /\ SubSeq(line, 1, Len(prefix)) = prefix

\* line.slice(6)
Slice(line, n) == SubSeq(line, n + 1, Len(line))

\* chunk.split('\n')
RECURSIVE Split(_)
Split(s) ==
    IF \A i \in 1..Len(s) : s[i] # NL
    THEN <<s>>
    ELSE LET i == CHOOSE k \in 1..Len(s) :
                      /\ s[k] = NL
                      /\ \A j \in 1..(k - 1) : s[j] # NL
         IN  <<SubSeq(s, 1, i - 1)>> \o Split(SubSeq(s, i + 1, Len(s)))

\* outputs.find((o) => o.name === 'response')
FindResponse(outputs) ==
    LET hits == {i \in 1..Len(outputs) : outputs[i].name = "response"}
    IN  IF hits = {} THEN <<>>
        ELSE <<outputs[CHOOSE i \in hits : \A j \in hits : i <= j]>>

\* ------------------------------------------------- callOasisAgent: reducer
\* the accumulators of one call, as one record
\*   cur, full, tools    currentMessage, fullResponse, toolsUsed
\*   events, fin         history of decoded events / of finalized messages
\*   threw               an exception is propagating
Acc(cur, full, tools, evs, fin) ==
    [cur |-> cur, full |-> full, tools |-> tools, events |-> evs, fin |-> fin,
     threw |-> FALSE]

Throw(st) == [st EXCEPT !.threw = TRUE]

\* OnToolCallStart that keeps one entry per tool
OnToolCallStartOnce(st, name) ==
    IF \E i \in 1..Len(st.tools) : st.tools[i] = name
    THEN st
    ELSE [st EXCEPT !.tools = Append(@, name)]

\* toolsUsed.push(aguiEvent.toolCallName)
OnToolCallStart(st, name) == [st EXCEPT !.tools = Append(@, name)]

\* currentMessage += aguiEvent.delta
OnTextContent(st, delta) == [st EXCEPT !.cur = @ \o delta]

\* OnTextEnd without currentMessage = ''
OnTextEndKeepsBuffer(st) ==
    [st EXCEPT !.full = @ \o st.cur, !.fin = Append(@, st.cur)]

\* OnTextEnd with fullResponse = currentMessage
OnTextEndOverwrites(st) ==
    [st EXCEPT !.full = st.cur, !.fin = Append(@, st.cur), !.cur = <<>>]

\* fullResponse += currentMessage; currentMessage = ''
OnTextEnd(st) ==
    [st EXCEPT !.full = @ \o st.cur, !.fin = Append(@, st.cur), !.cur = <<>>]

\* OnOtherEvent with a final else that resets the buffer
OnOtherEventResets(st) == [st EXCEPT !.cur = <<>>]

\* an aguiEvent no branch matches: nothing is executed
OnOtherEvent(st) == st

\* the two if-statements on aguiEvent
HandleEvent(st, e, v) ==
    LET s0 == [st EXCEPT !.events = Append(@, e)]
        s1 == IF v = "tau" /\ e.type = "TOOL_CALL_START" /\ e.toolCallName # ""
              THEN OnToolCallStart(s0, e.toolCallName)
              ELSE s0
    IN  IF e.type = "TEXT_MESSAGE_CONTENT" /\ e.delta # <<>>
        THEN OnTextContent(s1, e.delta)
        ELSE IF e.type = "TEXT_MESSAGE_END"
             THEN OnTextEnd(s1)
             ELSE OnOtherEvent(s1)

\* the body of the try block for one 'data: ' line
TryLine(st, text, v) ==
    IF ~IsJson(text) THEN Throw(st)
    ELSE LET data == JSONParse(text) IN
         IF ~data.hasOutput THEN st
         ELSE IF ~data.outputIsArray THEN Throw(st)
         ELSE LET found == FindResponse(data.output) IN
              IF found = <<>> THEN st
              ELSE IF found[1].content = <<>> THEN st
              ELSE IF ~IsJson(found[1].content) THEN Throw(st)
              ELSE HandleEvent(st, JSONParse(found[1].content), v)

\* Catch with the error thrown on
CatchRethrows(st) == Throw(st)

\* catch (e) { /* Skip invalid JSON */ }
Catch(st) == st

\* one iteration of for (const line of lines)
HandleLine(st, line, v) ==
    IF StartsWith(line, DataPrefix)
    THEN LET r == TryLine(st, Slice(line, Len(DataPrefix)), v)
         IN  IF r.threw THEN Catch(st) ELSE r
    ELSE st

\* for (const line of lines) { ... }; an exception that propagates ends the loop
RECURSIVE ForLines(_, _, _)
ForLines(st, lines, v) ==
    IF lines = <<>> \/ st.threw
    THEN st
    ELSE ForLines(HandleLine(st, Head(lines), v), Tail(lines), v)

\* String.prototype.trim
RECURSIVE TrimStart(_)
TrimStart(s) ==
    IF s # <<>> /\ Head(s) \in Whitespace THEN TrimStart(Tail(s)) ELSE s

RECURSIVE TrimEnd(_)
TrimEnd(s) ==
    IF s # <<>> /\ s[Len(s)] \in Whitespace
    THEN TrimEnd(SubSeq(s, 1, Len(s) - 1))
    ELSE s

Trim(s) == TrimEnd(TrimStart(s))

NoResponseReceived == <<"No response received">>

\* the value callOasisAgent returns after the read loop
ReturnValue(v, cur, full, tools) ==
    IF v = "mtbench"
    THEN LET f == IF cur # <<>> THEN full \o cur ELSE full
         IN  [response |-> IF Trim(f) # <<>> THEN Trim(f) ELSE NoResponseReceived,
              toolsUsed |-> <<>>]
    ELSE [response |-> full, toolsUsed |-> tools]

NoResult == <<>>

\* ------------------------------------------------ callOasisAgent: actions
NumLines(s) == Cardinality({i \in 1..Len(s) : s[i] = NL})

Wire == SubSeq(stream, pos + 1, Len(stream))

InitReader ==
    /\ variant \in {"mtbench", "tau"}
    /\ pc = "start"
    /\ stream = <<>>
    /\ pos = 0
    /\ currentMessage = <<>>
    /\ fullResponse = <<>>
    /\ toolsUsed = <<>>
    /\ events = <<>>
    /\ finalized = <<>>
    /\ released = 0
    /\ fetched = <<>>
    /\ requests = 0
    /\ error = ""
    /\ result = NoResult

Response(ok, body) == [ok |-> ok, body |-> body]

\* SetupError that lets a response without a body through
SetupErrorBodyOptional(v, resp) ==
    IF v = "mtbench"
    THEN IF ~resp.ok THEN "Agent error" ELSE ""
    ELSE IF ~resp.ok THEN "Agent request failed" ELSE ""

\* if (!response.ok) throw ...; if (!reader) throw ...   (mtbench)
\* if (!response.ok || !response.body) throw ...         (tau-bench)
SetupError(v, resp) ==
    IF v = "mtbench"
    THEN IF ~resp.ok THEN "Agent error"
         ELSE IF ~resp.body THEN "No response body"
         ELSE ""
    ELSE IF ~resp.ok \/ ~resp.body THEN "Agent request failed" ELSE ""

\* AfterSetup with a failed setup sent back to the request
AfterSetupRetries(err) == IF err = "" THEN "reading" ELSE "start"

\* where callOasisAgent goes after the checks: on to the read loop, or the throw
\* leaves the function
AfterSetup(err) == IF err = "" THEN "reading" ELSE "thrown"

\* await signAgentRequest(...) rejects: the error leaves callOasisAgent before fetch
SignRejects ==
    /\ pc = "start"
    /\ pc' = "thrown"
    /\ error' = "signing failed"
    /\ UNCHANGED <<variant, stream, pos, currentMessage, fullResponse, toolsUsed,
                   events, finalized, released, fetched, requests, result>>
    /\ UNCHANGED <<cvars, ovars>>

\* await fetch(...) rejects (network failure): the error leaves callOasisAgent
FetchRejects ==
    /\ pc = "start"
    /\ requests' = requests + 1
    /\ pc' = "thrown"
    /\ error' = "fetch failed"
    /\ UNCHANGED <<variant, stream, pos, currentMessage, fullResponse, toolsUsed,
                   events, finalized, released, fetched, result>>
    /\ UNCHANGED <<cvars, ovars>>

\* await fetch(...) resolved with resp; the checks up to getReader()
Fetch(resp) ==
    /\ pc = "start"
    /\ requests' = requests + 1
    /\ fetched' = <<resp>>
    /\ error' = SetupError(variant, resp)
    /\ pc' = AfterSetup(error')
    /\ UNCHANGED <<variant, stream, pos, currentMessage, fullResponse, toolsUsed,
                   events, finalized, released, result>>
    /\ UNCHANGED <<cvars, ovars>>

\* fetch resolved with response.ok and a body
FetchOk == Fetch(Response(TRUE, TRUE))

\* fetch resolved with a non-success status
FetchNotOk == Fetch(Response(FALSE, TRUE))

\* fetch resolved with response.ok but without a body
FetchNoBody == Fetch(Response(TRUE, FALSE))

\* the server writes one more line to the response body
ServerWrite(line, max) ==
    /\ pc = "reading"
    /\ NumLines(stream) < max
    /\ stream' = stream \o line \o <<NL>>
    /\ UNCHANGED <<variant, pc, pos, currentMessage, fullResponse, toolsUsed,
                   events, finalized, released, fetched, requests, error, result>>
    /\ UNCHANGED <<cvars, ovars>>

\* Finally as a release after the loop, skipped when the loop throws
ReleaseAfterLoop(rel, threw) == IF threw THEN rel ELSE rel + 1

\* finally { reader.releaseLock(); }: runs whether or not the try block threw
Finally(rel, threw) == rel + 1

\* reader.read() resolves with a chunk of n characters; one iteration of while (true)
Read(n) ==
    /\ pc = "reading"
    /\ n \in 1..Len(Wire)
    /\ LET chunk == SubSeq(stream, pos + 1, pos + n)
           st == ForLines(Acc(currentMessage, fullResponse, toolsUsed, events, finalized),
                          Split(chunk), variant)
       IN  /\ pos' = pos + n
           /\ currentMessage' = st.cur
           /\ fullResponse' = st.full
           /\ toolsUsed' = st.tools
           /\ events' = st.events
           /\ finalized' = st.fin
           /\ IF st.threw
              THEN /\ pc' = "thrown"
                   /\ released' = Finally(released, TRUE)
                   /\ error' = "line error"
              ELSE /\ pc' = pc
                   /\ released' = released
                   /\ error' = error
    /\ UNCHANGED <<variant, stream, fetched, requests, result>>
    /\ UNCHANGED <<cvars, ovars>>

\* reader.read() resolves with done: break, finally, return
ReadDone ==
    /\ pc = "reading"
    /\ Wire = <<>>
    /\ released' = Finally(released, FALSE)
    /\ result' = <<ReturnValue(variant, currentMessage, fullResponse, toolsUsed)>>
    /\ pc' = "returned"
    /\ UNCHANGED <<variant, stream, pos, currentMessage, fullResponse, toolsUsed,
                   events, finalized, fetched, requests, error>>
    /\ UNCHANGED <<cvars, ovars>>

\* reader.read() rejects (connection dropped, aborted): finally, the error propagates
ReadFail ==
    /\ pc = "reading"
    /\ released' = Finally(released, TRUE)
    /\ error' = "read failed"
    /\ pc' = "thrown"
    /\ UNCHANGED <<variant, stream, pos, currentMessage, fullResponse, toolsUsed,
                   events, finalized, fetched, requests, result>>
    /\ UNCHANGED <<cvars, ovars>>

ReaderStep ==
    \/ SignRejects
    \/ FetchRejects
    \/ FetchOk
    \/ FetchNotOk
    \/ FetchNoBody
    \/ \E n \in 1..(Len(stream) + 1) : Read(n)
    \/ ReadDone
    \/ ReadFail

Frame(tag) == DataPrefix \o JsonText(tag)

\* lines of a stream of AG-UI events
TextLines == {Frame(t) : t \in {"wS", "wCa", "wCb", "wE", "wU"}}

\* lines of a stream with tool calls
ToolLines == {Frame(t) : t \in {"wS", "wT", "wCa", "wE", "wU"}}

\* lines of a stream of tool calls: two tools, a start without a name, an end
ToolNameLines == {Frame(t) : t \in {"wT", "wT2", "wT0", "wTE", "wCa"}}

\* lines of a stream with frames that fail to unwrap
FrameLines == {Frame(t) : t \in {"wCa", "wE", "noout", "badout", "noresp",
                                 "nocontent", "badcontent"}}
                \cup {DataPrefix \o NotJsonText, <<>>}

\* ------------------------------------------- AGUIToTrajectoryConverter
\* new AGUIToTrajectoryConverter()
\* what getRunId() / getThreadId() return while no identity has been captured
NotYetKnown == "not-yet-known"

NewConverter ==
    [currentMessageBuffer |-> <<>>, runId |-> NotYetKnown, threadId |-> NotYetKnown]

\* an identity field is captured from the first event that supplies it
Capture(held, supplied) ==
    IF held = NotYetKnown /\ supplied # "" THEN supplied ELSE held

CaptureIdentity(conv, e) ==
    [conv EXCEPT !.runId = Capture(@, e.runId), !.threadId = Capture(@, e.threadId)]

\* converter.getRunId()
GetRunId(conv) == conv.runId

\* converter.getThreadId()
GetThreadId(conv) == conv.threadId

Step(kind, text) == [kind |-> kind, text |-> text]

\* converter.processEvent(event): the converter afterwards and the steps returned
ProcessEvent(conv, e) ==
    LET c == CaptureIdentity(conv, e)
    IN  IF e.type = "TEXT_MESSAGE_CONTENT"
        THEN [conv |-> [c EXCEPT !.currentMessageBuffer = @ \o e.delta],
              steps |-> <<>>]
        ELSE IF e.type = "TEXT_MESSAGE_END"
        THEN [conv |-> [c EXCEPT !.currentMessageBuffer = <<>>],
              steps |-> <<Step("response", conv.currentMessageBuffer)>>]
        ELSE IF e.type = "TOOL_CALL_START"
        THEN [conv |-> c, steps |-> <<Step("action", <<e.toolCallName>>)>>]
        ELSE [conv |-> c, steps |-> <<>>]

\* computeTrajectoryFromRawEvents(rawEvents): a fresh converter fed the events in order
RECURSIVE FeedEvents(_, _)
FeedEvents(conv, evs) ==
    IF evs = <<>>
    THEN <<>>
    ELSE LET r == ProcessEvent(conv, Head(evs))
         IN  r.steps \o FeedEvents(r.conv, Tail(evs))

ComputeTrajectoryFromRawEvents(evs) == FeedEvents(NewConverter, evs)

\* --------------------------------------------------- OllyConnector.execute
\* PushRawEvent for events of a known type only
PushRawEventIfKnown(raw, e) ==
    IF e.type = "SOMETHING_UNKNOWN" THEN raw ELSE Append(raw, e)

\* rawEvents.push(event)
PushRawEvent(raw, e) == Append(raw, e)

\* PushStep as unshift
PushStepFront(traj, step) == <<step>> \o traj

\* trajectory.push(step)
PushStep(traj, step) == Append(traj, step)

\* OnProgress that holds a step back until the next one
OnProgressLate(log, step) == IF log = <<>> THEN <<step>> ELSE <<step>> \o log

\* onProgress?.(step)
OnProgress(log, step) == Append(log, step)

\* steps.forEach(step => { trajectory.push(step); onProgress?.(step); })
RECURSIVE ForEachStep(_, _)
ForEachStep(out, steps) ==
    IF steps = <<>>
    THEN out
    ELSE ForEachStep([trajectory |-> PushStep(out.trajectory, Head(steps)),
                      progress |-> OnProgress(out.progress, Head(steps))],
                     Tail(steps))

\* parseResponse(rawEvents)
ParseResponse(evs) == ComputeTrajectoryFromRawEvents(evs)

AGUIEvents == {JsonValue(t) : t \in EventTags}

\* a RUN_STARTED event carrying identity
RunStarted(runId, threadId) ==
    [Event("RUN_STARTED", <<>>, "") EXCEPT !.runId = runId, !.threadId = threadId]

\* events of a stream whose events carry identity: two runs, one without a thread
IdentityEvents ==
    {RunStarted("run-1", "thread-1"), RunStarted("run-2", ""),
     JsonValue("Ca"), JsonValue("E")}

\* ExecuteResult without the identities of the stream
ExecuteResultNoIdentity(traj, raw, conv) ==
    [trajectory |-> traj, runId |-> NotYetKnown, rawEvents |-> raw,
     metadata |-> [threadId |-> NotYetKnown]]

\* const runId = converter.getRunId(); return { trajectory, runId, rawEvents,
\*                                              metadata: { threadId: converter.getThreadId() } }
ExecuteResult(traj, raw, conv) ==
    [trajectory |-> traj, runId |-> GetRunId(conv), rawEvents |-> raw,
     metadata |-> [threadId |-> GetThreadId(conv)]]

NoResponse == <<>>

\* header sets: a function from header names to values
NoHeaders == [k \in {} |-> ""]

\* this.buildAuthHeaders(auth), for no auth, a bearer token, a token and an API key
AuthHeaders ==
    {NoHeaders,
     [k \in {"Authorization"} |-> "base"],
     [k \in {"Authorization", "x-api-key"} |-> "base"]}

\* what signAgentRequest resolves with, without and with a session token
SigV4Headers(token) ==
    [k \in {"Authorization", "X-Amz-Date", "encrypted-fas-creds"}
            \cup (IF token THEN {"X-Amz-Security-Token"} ELSE {}) |-> "sigv4"]

SignerOutputs == {SigV4Headers(FALSE), SigV4Headers(TRUE)}

\* endpoints: none, an OASIS URL at amazonaws.com, a URL that is neither
OasisEndpoint == "https://oasis.amazonaws.com/agent"

Endpoints == {"", OasisEndpoint, "http://localhost:3000/agent"}

\* MergeHeaders with the spread operands swapped
MergeHeadersBaseWins(base, sig) ==
    [k \in DOMAIN base \cup DOMAIN sig |-> IF k \in DOMAIN base THEN base[k] ELSE sig[k]]

\* headers = { ...headers, ...sigv4Headers }
MergeHeaders(base, sig) ==
    [k \in DOMAIN base \cup DOMAIN sig |-> IF k \in DOMAIN sig THEN sig[k] ELSE base[k]]

SignCall(ok, hs) == [ok |-> ok, headers |-> hs]

\* execute about to be called
InitExecute ==
    /\ cpc = "idle"
    /\ endpoint = ""
    /\ headers = NoHeaders
    /\ signCalls = <<>>
    /\ streamCalls = <<>>
    /\ delivered = <<>>
    /\ converter = NewConverter
    /\ rawEvents = <<>>
    /\ trajectory = <<>>
    /\ rawSeen = <<>>
    /\ progress = <<>>
    /\ response = NoResponse
    /\ rejection = <<>>

\* execute(ep, request, auth): the endpoint check, the payload, the auth headers;
\* an endpoint without 'oasis' or 'amazonaws.com' is only logged
Execute(ep, auth) ==
    /\ cpc = "idle"
    /\ endpoint' = ep
    /\ IF ep = ""
       THEN /\ cpc' = "rejected"
            /\ headers' = headers
            /\ rejection' = <<"Olly connector requires an endpoint URL">>
       ELSE /\ cpc' = "signing"
            /\ headers' = auth
            /\ rejection' = rejection
    /\ UNCHANGED <<signCalls, streamCalls, delivered, converter, rawEvents, trajectory,
                   rawSeen, progress, response>>
    /\ UNCHANGED <<rvars, ovars>>

\* execute was called with an OASIS endpoint and no auth and awaits the signer
InitConnector ==
    /\ cpc = "signing"
    /\ endpoint = OasisEndpoint
    /\ headers = NoHeaders
    /\ signCalls = <<>>
    /\ streamCalls = <<>>
    /\ delivered = <<>>
    /\ converter = NewConverter
    /\ rawEvents = <<>>
    /\ trajectory = <<>>
    /\ rawSeen = <<>>
    /\ progress = <<>>
    /\ response = NoResponse
    /\ rejection = <<>>

\* signAgentRequest resolved: the headers are merged and the stream is requested
SignOk(sig) ==
    /\ cpc = "signing"
    /\ signCalls' = Append(signCalls, SignCall(TRUE, sig))
    /\ headers' = MergeHeaders(headers, sig)
    /\ streamCalls' = Append(streamCalls, headers')
    /\ cpc' = "streaming"
    /\ UNCHANGED <<endpoint, delivered, converter, rawEvents, trajectory, rawSeen, progress,
                   response, rejection>>
    /\ UNCHANGED <<rvars, ovars>>

\* messages of the errors signAgentRequest rejects with
SignErrors == {"ada credentials update failed", "Invalid URL"}

\* WrapSignError that throws the signer's error on as it is
WrapSignErrorBare(message) == <<message>>

\* new Error(`SigV4 authentication failed: ${error.message}`)
WrapSignError(message) == <<"SigV4 authentication failed: ", message>>

\* signAgentRequest rejected: catch, throw new Error('SigV4 authentication failed: ...')
SignFail(message) ==
    /\ cpc = "signing"
    /\ signCalls' = Append(signCalls, SignCall(FALSE, NoHeaders))
    /\ rejection' = WrapSignError(message)
    /\ cpc' = "rejected"
    /\ UNCHANGED <<endpoint, headers, streamCalls, delivered, converter, rawEvents,
                   trajectory, rawSeen, progress, response>>
    /\ UNCHANGED <<rvars, ovars>>

\* consumeSSEStream calls the callback with one event
OnEvent(e) ==
    /\ cpc = "streaming"
    /\ Len(delivered) < MaxEvents
    /\ delivered' = Append(delivered, e)
    /\ rawEvents' = PushRawEvent(rawEvents, e)
    /\ rawSeen' = Append(rawSeen, e)
    /\ LET r == ProcessEvent(converter, e)
           out == ForEachStep([trajectory |-> trajectory, progress |-> progress], r.steps)
       IN  /\ converter' = r.conv
           /\ trajectory' = out.trajectory
           /\ progress' = out.progress
    /\ UNCHANGED <<cpc, xvars, response, rejection>>
    /\ UNCHANGED <<rvars, ovars>>

\* consumeSSEStream resolved: execute returns the response
StreamEnd ==
    /\ cpc = "streaming"
    /\ response' = <<ExecuteResult(trajectory, rawEvents, converter)>>
    /\ cpc' = "returned"
    /\ UNCHANGED <<xvars, delivered, converter, rawEvents, trajectory, rawSeen, progress,
                   rejection>>
    /\ UNCHANGED <<rvars, ovars>>

\* consumeSSEStream rejected: the await throws and execute rejects
StreamFail ==
    /\ cpc = "streaming"
    /\ cpc' = "rejected"
    /\ rejection' = <<"stream failed">>
    /\ UNCHANGED <<xvars, delivered, converter, rawEvents, trajectory, rawSeen, progress,
                   response>>
    /\ UNCHANGED <<rvars, ovars>>

\* ------------------------------------ two execute calls on one connector
Calls == {1, 2}

\* Slot with the trajectory, rawEvents and converter kept in fields of the connector
SharedSlot(i) == 1

\* const trajectory = [], const rawEvents = [], const converter = new ...: locals
\* of the call, one set per call
Slot(i) == i

NewLocals == [trajectory |-> <<>>, rawEvents |-> <<>>, converter |-> NewConverter]

InitCalls ==
    /\ executions = [i \in Calls |-> [cpc |-> "idle", delivered |-> <<>>,
                                       response |-> NoResponse]]
    /\ locals = [i \in Calls |-> NewLocals]

\* call i passed signing and creates its trajectory, rawEvents and converter
CallStart(i) ==
    /\ executions[i].cpc = "idle"
    /\ executions' = [executions EXCEPT ![i].cpc = "streaming"]
    /\ locals' = [locals EXCEPT ![Slot(i)] = NewLocals]
    /\ UNCHANGED <<rvars, cvars, signer, bench, waiter, tauMain>>

\* consumeSSEStream of call i calls its callback with one event
CallEvent(i, e) ==
    /\ executions[i].cpc = "streaming"
    /\ Len(executions[i].delivered) < MaxCallEvents
    /\ executions' = [executions EXCEPT ![i].delivered = Append(@, e)]
    /\ LET mine == locals[Slot(i)]
           r == ProcessEvent(mine.converter, e)
           out == ForEachStep([trajectory |-> mine.trajectory, progress |-> <<>>],
                              r.steps)
       IN  locals' = [locals EXCEPT ![Slot(i)] =
                         [trajectory |-> out.trajectory,
                          rawEvents |-> PushRawEvent(mine.rawEvents, e),
                          converter |-> r.conv]]
    /\ UNCHANGED <<rvars, cvars, signer, bench, waiter, tauMain>>

\* consumeSSEStream of call i resolved: the call returns
CallEnd(i) ==
    /\ executions[i].cpc = "streaming"
    /\ LET mine == locals[Slot(i)]
       IN  executions' = [executions EXCEPT
               ![i].cpc = "returned",
               ![i].response = <<ExecuteResult(mine.trajectory, mine.rawEvents,
                                               mine.converter)>>]
    /\ UNCHANGED locals
    /\ UNCHANGED <<rvars, cvars, signer, bench, waiter, tauMain>>

NextCalls ==
    \E i \in Calls :
        \/ CallStart(i)
        \/ \E e \in {JsonValue("Ca"), JsonValue("Cb"), JsonValue("E")} : CallEvent(i, e)
        \/ CallEnd(i)

\* ------------------------------------------------------- signAgentRequest
\* a value of encryptedFasCreds: generated during call n, read from the
\* environment, or the built-in default
Creds(kind, n) == [kind |-> kind, call |-> n]

NoCreds == Creds("none", 0)

\* DEFAULT_ENCRYPTED_FAS_CREDS
DefaultEncryptedFasCreds == Creds("default", 0)

\* process.env.ENCRYPTED_FAS_CREDS: unset, or set
EnvValues == {"", "env"}

\* Fallback that never reads the environment
FallbackIgnoresEnv(env) == DefaultEncryptedFasCreds

\* process.env.ENCRYPTED_FAS_CREDS || DEFAULT_ENCRYPTED_FAS_CREDS
Fallback(env) == IF env # "" THEN Creds("env", 0) ELSE DefaultEncryptedFasCreds

InitSigner ==
    signer = [pc |-> "idle", call |-> 0, env |-> "", generated |-> NoCreds,
              generationFailed |-> FALSE, error |-> "",
              encryptedFasCreds |-> NoCreds, returned |-> <<>>]

\* signAgentRequest(endpoint, payload) is called; new URL(endpoint) throws or not
SignAgentRequest(env, urlOk) ==
    /\ signer.pc \in {"idle", "returned", "thrown"}
    /\ signer.call < MaxSignCalls
    /\ signer' = [signer EXCEPT !.pc = IF urlOk THEN "generating" ELSE "thrown",
                                !.call = @ + 1,
                                !.env = env,
                                !.generated = NoCreds,
                                !.generationFailed = FALSE,
                                !.error = IF urlOk THEN "" ELSE "Invalid URL",
                                !.encryptedFasCreds = NoCreds]
    /\ UNCHANGED <<rvars, cvars, executions, locals, bench, waiter, tauMain>>

\* generateFreshFasCreds resolved with the value the script printed
GenerateOk ==
    /\ signer.pc = "generating"
    /\ signer' = [signer EXCEPT !.pc = "credentials",
                                !.generated = Creds("fresh", signer.call),
                                !.encryptedFasCreds = Creds("fresh", signer.call)]
    /\ UNCHANGED <<rvars, cvars, executions, locals, bench, waiter, tauMain>>

\* generateFreshFasCreds threw (the script failed, or printed no
\* ENCRYPTED_FAS_CREDS line): catch, warn, fall back
GenerateFails ==
    /\ signer.pc = "generating"
    /\ signer' = [signer EXCEPT !.pc = "credentials",
                                !.generationFailed = TRUE,
                                !.encryptedFasCreds = Fallback(signer.env)]
    /\ UNCHANGED <<rvars, cvars, executions, locals, bench, waiter, tauMain>>

\* getAwsCredentialsFromAssumedRole threw (ada or AssumeRole): the error propagates
CredentialsFail(message) ==
    /\ signer.pc = "credentials"
    /\ signer' = [signer EXCEPT !.pc = "thrown", !.error = message]
    /\ UNCHANGED <<rvars, cvars, executions, locals, bench, waiter, tauMain>>

\* credentials resolved: the request is signed and the headers are returned
CredentialsOk ==
    /\ signer.pc = "credentials"
    /\ signer' = [signer EXCEPT
           !.pc = "returned",
           !.returned = Append(@, [call |-> signer.call,
                                   env |-> signer.env,
                                   generated |-> signer.generated,
                                   fasHeader |-> signer.encryptedFasCreds])]
    /\ UNCHANGED <<rvars, cvars, executions, locals, bench, waiter, tauMain>>

NextSigner ==
    \/ \E env \in EnvValues, urlOk \in BOOLEAN : SignAgentRequest(env, urlOk)
    \/ GenerateOk
    \/ GenerateFails
    \/ \E message \in {"ada credentials update failed",
                       "No credentials returned from assume role operation"} :
          CredentialsFail(message)
    \/ CredentialsOk

\* ------------------------------------------------ MT-Bench script: main
\* parseFloat(process.env.ACCURACY_THRESHOLD || '85')
DefaultAccuracyThreshold == 85

Thresholds == {DefaultAccuracyThreshold, 50}

\* scores the judge can give
Scores == {0, 80, 85, 100}

\* results.push({ questionId, ..., actual, accuracyScore, reasoning, latencyMs })
Result(questionId, actual, score, latencyMs) ==
    [questionId |-> questionId, actual |-> actual, accuracyScore |-> score,
     latencyMs |-> latencyMs]

\* OnQuestionError with a catch that only logs
OnQuestionErrorSkips(results, questionId) == results

\* catch (error) { results.push({ ..., actual: 'ERROR', accuracyScore: 0, latencyMs: 0 }) }
OnQuestionError(results, questionId) ==
    Append(results, Result(questionId, "ERROR", 0, 0))

RECURSIVE SumScores(_)
SumScores(results) ==
    IF results = <<>> THEN 0
    ELSE Head(results).accuracyScore + SumScores(Tail(results))

\* calculateSummary(results): averageAccuracy is sum / totalQuestions, kept as
\* the two numbers (0 / 0 is NaN)
CalculateSummary(results) ==
    [totalQuestions |-> Len(results), sum |-> SumScores(results)]

NoSummary == [totalQuestions |-> 0, sum |-> 0]

\* summary.averageAccuracy >= CONFIG.accuracyThreshold (false for NaN)
Passed(summary, threshold) ==
    /\ summary.totalQuestions > 0
    /\ summary.sum >= threshold * summary.totalQuestions

InitBench ==
    bench = [pc |-> "idle", threshold |-> DefaultAccuracyThreshold, questions |-> 0,
             i |-> 0, failed |-> {},
             results |-> <<>>, summary |-> NoSummary, verdict |-> "", exitCode |-> -1]

\* main() is called and loadDataset() returns n questions
Main(threshold, n) ==
    /\ bench.pc = "idle"
    /\ bench' = [bench EXCEPT !.pc = "running", !.threshold = threshold, !.questions = n]
    /\ UNCHANGED <<rvars, cvars, executions, locals, signer, waiter, tauMain>>

\* loadDataset() throws: runBenchmark rejects, catch, process.exit(1)
LoadFails ==
    /\ bench.pc = "idle"
    /\ bench' = [bench EXCEPT !.pc = "exited", !.exitCode = 1]
    /\ UNCHANGED <<rvars, cvars, executions, locals, signer, waiter, tauMain>>

\* questions[i] (question_id i + 1): the agent answered after latencyMs and the
\* judge scored the answer; i++
QuestionOk(score, latencyMs) ==
    /\ bench.pc = "running"
    /\ bench.i < bench.questions
    /\ bench' = [bench EXCEPT
           !.results = Append(@, Result(bench.i + 1, "answer", score, latencyMs)),
           !.i = @ + 1]
    /\ UNCHANGED <<rvars, cvars, executions, locals, signer, waiter, tauMain>>

\* questions[i]: callOasisAgent or evaluateWithBedrock threw; catch; i++
QuestionFails ==
    /\ bench.pc = "running"
    /\ bench.i < bench.questions
    /\ bench' = [bench EXCEPT
           !.results = OnQuestionError(@, bench.i + 1),
           !.failed = @ \cup {bench.i + 1},
           !.i = @ + 1]
    /\ UNCHANGED <<rvars, cvars, executions, locals, signer, waiter, tauMain>>

\* the loop is over: calculateSummary, printSummary prints the verdict
PrintSummary ==
    /\ bench.pc = "running"
    /\ bench.i = bench.questions
    /\ LET summary == CalculateSummary(bench.results)
       IN  bench' = [bench EXCEPT
               !.pc = "printed",
               !.summary = summary,
               !.verdict = IF Passed(summary, bench.threshold) THEN "PASSED"
                           ELSE "FAILED"]
    /\ UNCHANGED <<rvars, cvars, executions, locals, signer, waiter, tauMain>>

\* saveReport wrote the file: process.exit(passed ? 0 : 1)
SaveReportOk ==
    /\ bench.pc = "printed"
    /\ bench' = [bench EXCEPT
           !.pc = "exited",
           !.exitCode = IF Passed(bench.summary, bench.threshold) THEN 0 ELSE 1]
    /\ UNCHANGED <<rvars, cvars, executions, locals, signer, waiter, tauMain>>

\* fs.writeFileSync throws in saveReport: catch, process.exit(1)
SaveReportFails ==
    /\ bench.pc = "printed"
    /\ bench' = [bench EXCEPT !.pc = "exited", !.exitCode = 1]
    /\ UNCHANGED <<rvars, cvars, executions, locals, signer, waiter, tauMain>>

NextBench ==
    \/ \E threshold \in Thresholds, n \in 0..MaxQuestions : Main(threshold, n)
    \/ LoadFails
    \/ \E score \in Scores, latencyMs \in {0, 40} : QuestionOk(score, latencyMs)
    \/ QuestionFails
    \/ PrintSummary
    \/ SaveReportOk
    \/ SaveReportFails

\* --------------------------------- get-encrypted-fas-creds: waitForToken
\* waitForToken(requestId, beholderCredentials, maxAttempts = 3, delayMs = 2000)
DefaultMaxAttempts == 3

AttemptArgs == 0..MaxAttemptsArg \cup {DefaultMaxAttempts}

\* what getJwtTokenFromCloudWatch resolves with: a token, or null because the
\* log has no events for the request or none of them holds a token
Tokens == {"jwt-1", "jwt-2"}

Nulls == {"no events", "no match"}

FailedToFindToken == "Failed to find token after maximum attempts"

\* LoopContinues with < for <=
LoopContinuesBelow(attempt, maxAttempts) == attempt < maxAttempts

\* for (let attempt = 1; attempt <= maxAttempts; attempt++)
LoopContinues(attempt, maxAttempts) == attempt <= maxAttempts

\* if (attempt < maxAttempts) await new Promise(resolve => setTimeout(resolve, delayMs))
Delays(attempt, maxAttempts) == attempt < maxAttempts

InitWaiter ==
    waiter = [pc |-> "idle", maxAttempts |-> DefaultMaxAttempts, attempt |-> 0,
              queries |-> <<>>, waits |-> 0, token |-> "", error |-> ""]

\* the head of the loop with attempt = a: the next query, or the throw after the loop
LoopHead(w, a) ==
    IF LoopContinues(a, w.maxAttempts)
    THEN [w EXCEPT !.attempt = a, !.pc = "querying"]
    ELSE [w EXCEPT !.attempt = a, !.pc = "thrown", !.error = FailedToFindToken]

\* waitForToken is called
WaitForToken(maxAttempts) ==
    /\ waiter.pc = "idle"
    /\ waiter' = LoopHead([waiter EXCEPT !.maxAttempts = maxAttempts], 1)
    /\ UNCHANGED <<rvars, cvars, executions, locals, signer, bench, tauMain>>

\* getJwtTokenFromCloudWatch resolved with a token: return token
QueryFinds(token) ==
    /\ waiter.pc = "querying"
    /\ waiter' = [waiter EXCEPT !.queries = Append(@, token), !.token = token,
                                !.pc = "returned"]
    /\ UNCHANGED <<rvars, cvars, executions, locals, signer, bench, tauMain>>

\* getJwtTokenFromCloudWatch resolved with null: wait unless this was the last attempt
QueryFindsNothing(why) ==
    /\ waiter.pc = "querying"
    /\ LET w == [waiter EXCEPT !.queries = Append(@, why)]
       IN  waiter' = IF Delays(w.attempt, w.maxAttempts)
                     THEN [w EXCEPT !.waits = @ + 1, !.pc = "waiting"]
                     ELSE LoopHead(w, w.attempt + 1)
    /\ UNCHANGED <<rvars, cvars, executions, locals, signer, bench, tauMain>>

\* getJwtTokenFromCloudWatch rethrew a CloudWatch error: it leaves waitForToken
QueryFails ==
    /\ waiter.pc = "querying"
    /\ waiter' = [waiter EXCEPT !.queries = Append(@, "error"), !.error = "query error",
                                !.pc = "thrown"]
    /\ UNCHANGED <<rvars, cvars, executions, locals, signer, bench, tauMain>>

\* the timer of delayMs fired: attempt++
TimerFires ==
    /\ waiter.pc = "waiting"
    /\ waiter' = LoopHead(waiter, waiter.attempt + 1)
    /\ UNCHANGED <<rvars, cvars, executions, locals, signer, bench, tauMain>>

NextWait ==
    \/ \E maxAttempts \in AttemptArgs : WaitForToken(maxAttempts)
    \/ \E token \in Tokens : QueryFinds(token)
    \/ \E why \in Nulls : QueryFindsNothing(why)
    \/ QueryFails
    \/ TimerFires

\* ----------------------------------------------- tau-bench script: main
\* overallScore >= CONFIG.accuracyThreshold, overallScore = (toolUsage + taskCompletion) / 2
TaskPasses(r, threshold) == r.toolUsageScore + r.taskCompletionScore >= 2 * threshold

\* passRate >= CONFIG.accuracyThreshold, passRate = passing / results.length * 100
\* (0 / 0 is NaN: false)
PassRateAtLeast(results, threshold) ==
    /\ Len(results) > 0
    /\ 100 * Cardinality({k \in 1..Len(results) : TaskPasses(results[k], threshold)})
          >= threshold * Len(results)

InitTau ==
    tauMain = [pc |-> "idle", threshold |-> DefaultAccuracyThreshold, tasks |-> 0,
               results |-> <<>>, threw |-> "", verdict |-> "", exitCode |-> -1]

\* main() is called and the dataset holds n tasks
TauMain(threshold, n) ==
    /\ tauMain.pc = "idle"
    /\ tauMain' = [tauMain EXCEPT !.pc = "running", !.threshold = threshold, !.tasks = n]
    /\ UNCHANGED <<rvars, cvars, executions, locals, signer, bench, waiter>>

\* one task: callOasisAgent returned and evaluateTask returned the two scores
TaskEvaluated(toolUsage, taskCompletion) ==
    /\ tauMain.pc = "running"
    /\ Len(tauMain.results) < tauMain.tasks
    /\ tauMain' = [tauMain EXCEPT !.results =
                       Append(@, [toolUsageScore |-> toolUsage,
                                  taskCompletionScore |-> taskCompletion])]
    /\ UNCHANGED <<rvars, cvars, executions, locals, signer, bench, waiter>>

\* an await of main rejects: readFileSync / JSON.parse of the dataset,
\* callOasisAgent or the judge call of a task, writeFileSync of the report.
\* main has no try: main().catch(console.error) logs the error and the process
\* ends with the exit code of a process that was never told one, 0
MainRejects(what) ==
    /\ \/ what = "load" /\ tauMain.pc = "idle"
       \/ /\ what \in {"agent", "judge"}
          /\ tauMain.pc = "running"
          /\ Len(tauMain.results) < tauMain.tasks
       \/ what = "report" /\ tauMain.pc = "printed"
    /\ tauMain' = [tauMain EXCEPT !.pc = "exited", !.threw = what, !.exitCode = 0]
    /\ UNCHANGED <<rvars, cvars, executions, locals, signer, bench, waiter>>

\* the loop is over: the metrics are computed and the verdict is printed
TauPrint ==
    /\ tauMain.pc = "running"
    /\ Len(tauMain.results) = tauMain.tasks
    /\ tauMain' = [tauMain EXCEPT
           !.pc = "printed",
           !.verdict = IF PassRateAtLeast(tauMain.results, tauMain.threshold)
                       THEN "PASSED" ELSE "FAILED"]
    /\ UNCHANGED <<rvars, cvars, executions, locals, signer, bench, waiter>>

\* the report was written: process.exit(passRate >= CONFIG.accuracyThreshold ? 0 : 1)
TauExit ==
    /\ tauMain.pc = "printed"
    /\ tauMain' = [tauMain EXCEPT
           !.pc = "exited",
           !.exitCode = IF PassRateAtLeast(tauMain.results, tauMain.threshold)
                        THEN 0 ELSE 1]
    /\ UNCHANGED <<rvars, cvars, executions, locals, signer, bench, waiter>>

NextTau ==
    \/ \E threshold \in Thresholds, n \in 0..MaxTasks : TauMain(threshold, n)
    \/ \E toolUsage \in {0, 100}, taskCompletion \in {0, 80, 100} :
          TaskEvaluated(toolUsage, taskCompletion)
    \/ \E what \in {"load", "agent", "judge", "report"} : MainRejects(what)
    \/ TauPrint
    \/ TauExit

InitOthers == InitCalls /\ InitSigner /\ InitBench /\ InitWaiter /\ InitTau

Init == InitReader /\ InitConnector /\ InitOthers

SpecSigner == Init /\ [][NextSigner]_vars

SpecBench == Init /\ [][NextBench]_vars

SpecTau == Init /\ [][NextTau]_vars

SpecWait == Init /\ [][NextWait]_vars

\* every query settles and every timer fires
SpecWaitFair == SpecWait /\ WF_vars(NextWait)

SpecCalls == Init /\ [][NextCalls]_vars

Next ==
    \/ \E l \in TextLines : ServerWrite(l, MaxLines)
    \/ ReaderStep

Spec == Init /\ [][Next]_vars

NextFrames ==
    \/ \E l \in FrameLines : ServerWrite(l, MaxFrames)
    \/ ReaderStep

SpecFrames == Init /\ [][NextFrames]_vars

NextTools ==
    \/ \E l \in ToolLines : ServerWrite(l, MaxLines)
    \/ ReaderStep

SpecTools == Init /\ [][NextTools]_vars

NextToolNames ==
    \/ \E l \in ToolNameLines : ServerWrite(l, MaxLines)
    \/ ReaderStep

SpecToolNames == Init /\ [][NextToolNames]_vars

NextConnector ==
    \/ \E sig \in SignerOutputs : SignOk(sig)
    \/ \E message \in SignErrors : SignFail(message)
    \/ \E e \in AGUIEvents : OnEvent(e)
    \/ StreamEnd
    \/ StreamFail

SpecConnector == Init /\ [][NextConnector]_vars

\* one program runs: a benchmark script reading a stream, or the connector
NextEither ==
    \/ cpc = "signing" /\ Next
    \/ pc = "start" /\ NextConnector

SpecEither == Init /\ [][NextEither]_vars

NextExecute ==
    \/ \E ep \in Endpoints, auth \in AuthHeaders : Execute(ep, auth)
    \/ \E sig \in SignerOutputs : SignOk(sig)
    \/ \E message \in SignErrors : SignFail(message)
    \/ \E e \in {JsonValue("Ca"), JsonValue("E")} : OnEvent(e)
    \/ StreamEnd
    \/ StreamFail

\* execute not yet called
InitIdle == InitReader /\ InitExecute /\ InitOthers

SpecExecute == InitIdle /\ [][NextExecute]_vars

NextIdentity ==
    \/ \E sig \in SignerOutputs : SignOk(sig)
    \/ \E message \in SignErrors : SignFail(message)
    \/ \E e \in IdentityEvents : OnEvent(e)
    \/ StreamEnd
    \/ StreamFail

SpecIdentity == Init /\ [][NextIdentity]_vars

\* ------------------------------------------------------------ properties
IsType(e, t) == e.type = t

Acc0 == Acc(<<>>, <<>>, <<>>, <<>>, <<>>)

\* the indices of the TEXT_MESSAGE_END events of a history
EndIndices(evs) == {i \in 1..Len(evs) : IsType(evs[i], "TEXT_MESSAGE_END")}

\* the END before index i (0: none)
PrevEnd(evs, i) ==
    LET before == {j \in EndIndices(evs) : j < i}
    IN  IF before = {} THEN 0 ELSE CHOOSE j \in before : \A k \in before : k <= j

\* where the span closed at index i opened: the first START or CONTENT after the
\* previous END (a span that is open stays the one open span)
SpanOpen(evs, i) ==
    LET openers == {j \in (PrevEnd(evs, i) + 1)..(i - 1) :
                        \/ IsType(evs[j], "TEXT_MESSAGE_START")
                        \/ IsType(evs[j], "TEXT_MESSAGE_CONTENT")}
    IN  IF openers = {} THEN i ELSE CHOOSE j \in openers : \A k \in openers : j <= k

\* the delta fragments of the CONTENT events at indices lo..hi, concatenated in order
RECURSIVE ConcatDeltas(_, _, _)
ConcatDeltas(evs, lo, hi) ==
    IF lo > hi
    THEN <<>>
    ELSE (IF IsType(evs[lo], "TEXT_MESSAGE_CONTENT") THEN evs[lo].delta ELSE <<>>)
         \o ConcatDeltas(evs, lo + 1, hi)

RECURSIVE Flatten(_)
Flatten(texts) ==
    IF texts = <<>> THEN <<>> ELSE Head(texts) \o Flatten(Tail(texts))

\* the index of the k-th END event
KthEnd(evs, k) ==
    CHOOSE i \in EndIndices(evs) : Cardinality({j \in EndIndices(evs) : j <= i}) = k

\* C1: every TEXT_MESSAGE_END finalizes exactly one text, and that text is the
\* concatenation, in arrival order, of the delta fragments of the CONTENT events
\* received between the opening of its span (START or implicit) and that END; the
\* response text is made of these finalized texts and nothing else.
C1_FinalizedTextIsSpanConcatenation ==
    /\ Len(finalized) = Cardinality(EndIndices(events))
    /\ \A k \in 1..Len(finalized) :
           LET i == KthEnd(events, k)
           IN  finalized[k] = ConcatDeltas(events, SpanOpen(events, i), i - 1)
    /\ fullResponse = Flatten(finalized)

\* two fragments were concatenated in arrival order and finalized by an END
C1_Witness ==
    /\ events # <<>>
    /\ IsType(events[Len(events)], "TEXT_MESSAGE_END")
    /\ finalized # <<>>
    /\ finalized[Len(finalized)] = <<"a", " ", "b">>

\* C2: at end of stream a buffered, unfinished message is discarded: what the call
\* returns is what it returns for the finalized text alone.
C2_UnfinishedSpanDiscarded ==
    pc = "returned" =>
        result[1].response = ReturnValue(variant, <<>>, fullResponse, toolsUsed).response

\* the events the reader yields when the whole stream arrives in one chunk
EventsOfWholeStream(s, v) == ForLines(Acc0, Split(s), v).events

\* C3: whatever the chunking, the reader has decoded the events it decodes when the
\* lines arrive whole.
C3_ChunkingIndependent ==
    (pc = "returned" /\ pos = Len(stream)) => events = EventsOfWholeStream(stream, variant)

\* the event of a line that unwraps at every step, as a sequence of zero or one event
ValidFrameEvent(line) ==
    IF /\ StartsWith(line, DataPrefix)
       /\ IsJson(Slice(line, Len(DataPrefix)))
    THEN LET data == JSONParse(Slice(line, Len(DataPrefix)))
             named == IF data.hasOutput /\ data.outputIsArray
                      THEN SelectSeq(data.output, LAMBDA o : o.name = "response")
                      ELSE <<>>
         IN  IF named # <<>> /\ IsJson(named[1].content)
             THEN <<JSONParse(named[1].content)>>
             ELSE <<>>
    ELSE <<>>

RECURSIVE ValidFrameEvents(_)
ValidFrameEvents(lines) ==
    IF lines = <<>>
    THEN <<>>
    ELSE ValidFrameEvent(Head(lines)) \o ValidFrameEvents(Tail(lines))

\* C4: a read whose chunk holds frames that fail to unwrap raises nothing and yields
\* exactly the events of the chunk's valid frames, in order: each failing frame is
\* skipped alone.
C4_MalformedFrameSkippedAlone ==
    [][pos' > pos =>
         /\ pc' = "reading"
         /\ events' = events \o ValidFrameEvents(Split(SubSeq(stream, pos + 1, pos')))]_vars

\* 'data: not-json' between two valid frames: the two events, in order
C4_Witness ==
    /\ stream = Frame("wCa") \o <<NL>> \o DataPrefix \o NotJsonText \o <<NL>>
                \o Frame("wE") \o <<NL>>
    /\ pos = Len(stream)
    /\ events = <<JsonValue("Ca"), JsonValue("E")>>
    /\ pc = "returned"

Recognized(e) ==
    e.type \in {"TEXT_MESSAGE_START", "TEXT_MESSAGE_CONTENT", "TEXT_MESSAGE_END",
                "TOOL_CALL_START"}

RECURSIVE Reduce(_, _, _)
Reduce(st, evs, v) ==
    IF evs = <<>> THEN st ELSE Reduce(HandleEvent(st, Head(evs), v), Tail(evs), v)

\* C5: events of an unrecognized type change nothing: the message buffer, the
\* finalized text and the tool names are those the recognized events alone produce.
C5_UnknownEventChangesNothing ==
    LET r == Reduce(Acc0, SelectSeq(events, Recognized), variant)
    IN  /\ currentMessage = r.cur
        /\ fullResponse = r.full
        /\ finalized = r.fin
        /\ toolsUsed = r.tools

\* an unknown event arrived while text was buffered and a tool recorded: both are
\* as they were
C5_Witness ==
    /\ events # <<>>
    /\ ~Recognized(events[Len(events)])
    /\ currentMessage = <<"a">>
    /\ toolsUsed = <<"search">>

C7_RawLogMirrorsDelivered ==
    /\ rawEvents = delivered
    /\ rawSeen = delivered

\* two events were delivered, one of an unrecognized type, and no step came of them
C7_Witness ==
    /\ Len(rawEvents) = 2
    /\ \E i \in 1..2 : ~Recognized(rawEvents[i])
    /\ trajectory = <<>>

\* C8: the steps processEvent returns for an event are appended to the trajectory
\* and passed to onProgress, in the order returned, within the delivery of that
\* event: nothing is held back for a later event and nothing is reordered.
C8_StepsEmittedInArrivalOrder ==
    [][Len(delivered') > Len(delivered) =>
         LET steps == ProcessEvent(converter, delivered'[Len(delivered')]).steps
         IN  /\ trajectory' = trajectory \o steps
             /\ progress' = progress \o steps]_vars

\* two different steps were emitted, and onProgress saw them in trajectory order
C8_Witness ==
    /\ Len(trajectory) >= 2
    /\ trajectory[1] # trajectory[2]
    /\ progress = trajectory

\* the stream was established: fetch resolved ok with a body and a reader was obtained
Established == fetched # <<>> /\ fetched[1].ok /\ fetched[1].body

\* C9: a stream that fails after text has been read from it does not cost the
\* caller that text: the call throws only when the stream could never be
\* established, and otherwise ends with a (possibly partial) result.
C9_FailureAfterReadingKeepsResult ==
    (Established /\ (fullResponse # <<>> \/ currentMessage # <<>>)) => pc # "thrown"

\* C10: once the reader is obtained, releaseLock is called exactly once on every
\* exit path, and never before the loop is left or without a reader.
C10_ReaderReleasedExactlyOnce ==
    /\ (Established /\ pc \in {"returned", "thrown"}) => released = 1
    /\ pc = "reading" => released = 0
    /\ ~Established => released = 0

\* a read failed after frames had been read, and the lock was released
C10_Witness ==
    /\ pc = "thrown"
    /\ error = "read failed"
    /\ pos > 0
    /\ released = 1

\* the first value of an identity field in a history of events
FirstSupplied(ids) ==
    LET ix == {i \in 1..Len(ids) : ids[i] # ""}
    IN  IF ix = {} THEN NotYetKnown
        ELSE ids[CHOOSE i \in ix : \A j \in ix : i <= j]

RunIds(evs) == [i \in 1..Len(evs) |-> evs[i].runId]

ThreadIds(evs) == [i \in 1..Len(evs) |-> evs[i].threadId]

C12_AbsentBodyThrows ==
    (fetched # <<>> /\ ~fetched[1].body) =>
        /\ pc = "thrown"
        /\ error \in {"No response body", "Agent request failed"}
        /\ result = NoResult
        /\ events = <<>>

C12_Witness ==
    /\ fetched = <<Response(TRUE, FALSE)>>
    /\ variant = "mtbench"
    /\ error = "No response body"
    /\ pc = "thrown"

\* the call is over
Ended == pc \in {"returned", "thrown"}

\* C13: callOasisAgent never requests the endpoint twice, requests it once in
\* every call that got past signing, and throws without reading a frame when
\* the request is rejected or answered with a non-success status
C13_SetupFailureIsNotRetried ==
    /\ requests <= 1
    /\ (Ended /\ error # "signing failed") => requests = 1
    /\ (requests = 1 /\ (fetched = <<>> \/ ~fetched[1].ok)) =>
          /\ pc = "thrown"
          /\ pos = 0
          /\ events = <<>>
          /\ released = 0
          /\ result = NoResult

C13_Witness ==
    /\ requests = 1
    /\ fetched = <<Response(FALSE, TRUE)>>
    /\ pc = "thrown"
    /\ error = "Agent error"

IsPrefix(a, b) == Len(a) <= Len(b) /\ SubSeq(b, 1, Len(a)) = a

\* C14: every step of execute leaves the trajectory it had as a prefix of the
\* trajectory it has, and every step of a benchmark reader leaves the
\* finalized response text it had as a prefix of the text it has
C14_OutputOnlyAppended ==
    [][IsPrefix(trajectory, trajectory') /\ IsPrefix(fullResponse, fullResponse')]_vars

\* execute returned two different steps, the second pushed after the first
C14_Witness ==
    /\ cpc = "returned"
    /\ Len(trajectory) >= 2
    /\ trajectory[1] = Step("response", <<"a">>)
    /\ trajectory[2] = Step("action", <<"search">>)

RECURSIVE ToolNames(_)
ToolNames(evs) ==
    IF evs = <<>>
    THEN <<>>
    ELSE (IF IsType(Head(evs), "TOOL_CALL_START") /\ Head(evs).toolCallName # ""
          THEN <<Head(evs).toolCallName>>
          ELSE <<>>) \o ToolNames(Tail(evs))

\* C16: in the tau-bench reader toolsUsed is the sequence of the names of the
\* TOOL_CALL_START events received that carry a name, in arrival order with
\* repetitions, and that sequence is what the call returns
C16_ToolsUsedAreStartNames ==
    variant = "tau" =>
        /\ toolsUsed = ToolNames(events)
        /\ pc = "returned" => result[1].toolsUsed = ToolNames(events)

\* the same tool started twice around an end event and a start without a name
C16_Witness ==
    /\ variant = "tau"
    /\ pc = "returned"
    /\ \E mid \in {JsonValue("TE"), JsonValue("T0")} :
          events = <<JsonValue("T"), mid, JsonValue("T")>>
    /\ result[1].toolsUsed = <<"search", "search">>

\* C17: of two execute calls on one connector whose streams interleave, each
\* holds and returns the events of its own stream and the steps they convert to
C17_CallsShareNoState ==
    \A i \in Calls :
        /\ executions[i].cpc # "idle" => locals[i].rawEvents = executions[i].delivered
        /\ executions[i].cpc = "returned" =>
              /\ executions[i].response[1].rawEvents = executions[i].delivered
              /\ executions[i].response[1].trajectory
                    = ParseResponse(executions[i].delivered)

\* both calls returned; their events alternated: Ca to 1, Cb to 2, E to each
C17_Witness ==
    /\ \A i \in Calls : executions[i].cpc = "returned"
    /\ executions[1].delivered = <<JsonValue("Ca"), JsonValue("E")>>
    /\ executions[2].delivered = <<JsonValue("Cb"), JsonValue("E")>>
    /\ executions[1].response[1].trajectory = <<Step("response", <<"a">>)>>
    /\ executions[2].response[1].trajectory = <<Step("response", <<" ", "b">>)>>

\* C18: the 'encrypted-fas-creds' header of every header set signAgentRequest
\* returned is the value generateFreshFasCreds produced during that call
C18_FasCredsAlwaysFresh ==
    \A i \in 1..Len(signer.returned) :
        signer.returned[i].fasHeader = Creds("fresh", signer.returned[i].call)

\* C19: the MT-Bench script exits with 0 exactly when the average accuracy
\* of its summary is at least the threshold, with 1 otherwise, and the
\* verdict it printed agrees with the exit code
C19_ExitCodeMatchesVerdict ==
    bench.pc = "exited" =>
        /\ bench.exitCode = 0 <=> Passed(CalculateSummary(bench.results), bench.threshold)
        /\ bench.exitCode \in {0, 1}
        /\ bench.verdict = "PASSED" => bench.exitCode = 0
        /\ bench.verdict = "FAILED" => bench.exitCode = 1

\* what waitForToken has done so far is what a bounded retry does
BoundedRetry ==
    LET qs == waiter.queries
        n == Len(qs)
    IN  /\ n <= waiter.maxAttempts
        /\ \A i \in 1..(n - 1) : qs[i] \in Nulls
        /\ waiter.pc \in {"querying", "waiting"} =>
              /\ \A i \in 1..n : qs[i] \in Nulls
              /\ waiter.waits = n
        /\ waiter.pc = "returned" =>
              /\ n >= 1
              /\ qs[n] \in Tokens
              /\ waiter.token = qs[n]
              /\ waiter.waits = n - 1
        /\ (waiter.pc = "thrown" /\ waiter.error = "query error") =>
              /\ n >= 1
              /\ qs[n] = "error"
              /\ waiter.waits = n - 1
        /\ (waiter.pc = "thrown" /\ waiter.error # "query error") =>
              /\ waiter.error = FailedToFindToken
              /\ n = waiter.maxAttempts
              /\ \A i \in 1..n : qs[i] \in Nulls
              /\ waiter.waits = IF n = 0 THEN 0 ELSE n - 1

\* C20: waitForToken queries at most maxAttempts times, returns the first
\* token found without another query, starts a wait after every query that
\* found nothing except the last, throws 'Failed to find token after maximum
\* attempts' after maxAttempts queries without a token, lets a query error
\* out at once, and ends when every query settles
C20_WaitForTokenIsBoundedRetry ==
    /\ []BoundedRetry
    /\ <>(waiter.pc \in {"returned", "thrown"})

\* the default three attempts: nothing twice, a wait after each, the token at
\* the third query
C20_Witness ==
    /\ waiter.pc = "returned"
    /\ waiter.maxAttempts = DefaultMaxAttempts
    /\ Len(waiter.queries) = 3
    /\ waiter.waits = 2
    /\ waiter.token = "jwt-1"

\* C21: a question whose agent call or judge call threw has the result
\* ERROR with score 0 and latency 0, every other question its scored
\* answer, and the results hold one entry per question handled, in question
\* order: all of them once the loop is over
C21_QuestionFailureIsIsolated ==
    /\ Len(bench.results) = bench.i
    /\ \A k \in 1..Len(bench.results) :
          /\ bench.results[k].questionId = k
          /\ k \in bench.failed <=> bench.results[k].actual = "ERROR"
          /\ k \in bench.failed =>
                bench.results[k].accuracyScore = 0 /\ bench.results[k].latencyMs = 0
    /\ bench.pc \in {"printed", "exited"} /\ bench.verdict # "" =>
          /\ Len(bench.results) = bench.questions
          /\ bench.summary.totalQuestions = bench.questions

\* the first of two questions threw, the second was scored 100, and the
\* summary was printed
C21_Witness ==
    /\ bench.pc = "printed"
    /\ bench.questions = 2
    /\ bench.failed = {1}
    /\ bench.results = <<Result(1, "ERROR", 0, 0), Result(2, "answer", 100, 40)>>

\* C22: the tau-bench script ends with exit code 0 only if no agent call and
\* no judge call failed, every task was evaluated and the pass rate is at
\* least the threshold
C22_ExitZeroOnlyAfterFullPassingRun ==
    (tauMain.pc = "exited" /\ tauMain.exitCode = 0) =>
        /\ tauMain.threw \notin {"agent", "judge"}
        /\ Len(tauMain.results) = tauMain.tasks
        /\ PassRateAtLeast(tauMain.results, tauMain.threshold)

\* C23: when signAgentRequest rejects, execute rejects with a message that
\* starts with 'SigV4 authentication failed: ' and carries the signer's
\* message; consumeSSEStream is not called, no event is delivered, and
\* onRawEvent and onProgress are not invoked
C23_SigningFailureStopsExecute ==
    (signCalls # <<>> /\ ~signCalls[1].ok) =>
        /\ cpc = "rejected"
        /\ Len(rejection) = 2
        /\ rejection[1] = "SigV4 authentication failed: "
        /\ rejection[2] \in SignErrors
        /\ streamCalls = <<>>
        /\ delivered = <<>>
        /\ rawSeen = <<>>
        /\ progress = <<>>
        /\ response = NoResponse

C23_Witness ==
    /\ cpc = "rejected"
    /\ endpoint = OasisEndpoint
    /\ signCalls = <<SignCall(FALSE, NoHeaders)>>
    /\ rejection = <<"SigV4 authentication failed: ", "ada credentials update failed">>
    /\ streamCalls = <<>>

\* the headers signAgentRequest returned in its current call
ReturnedNow == {i \in 1..Len(signer.returned) : signer.returned[i].call = signer.call}

====
